---- MODULE Spec2Model ----
(***************************************************************************)
(* Samplers and Monte-Carlo cells of the simulation-methods notebooks.     *)
(*                                                                         *)
(* Every random value comes from np.random.random(), which returns a       *)
(* double k / 2^53 in [0,1).  A draw is modelled by its numerator k over   *)
(* a power-of-two denominator, so the values a draw can take are dyadic    *)
(* rationals exactly as in the program, at a coarser resolution.           *)
(* Comparisons between rationals are made by cross-multiplication, so no   *)
(* rounding enters the model.                                              *)
(*                                                                         *)
(* Each notebook cell / function is one program with its own record-valued *)
(* variable (named after the function) and its own specification; the      *)
(* fields of the record carry the names of the program's variables.        *)
(***************************************************************************)
EXTENDS Integers, Sequences, FiniteSets

VARIABLES va, abs_norm, disc, conf, path, search, mixture,
          partition, va_boule, notebook, rho_loop, gaussian2, binomial,
          sous_groupes, poisson, exit_time

vars == <<va, abs_norm, disc, conf, path, search, mixture,
          partition, va_boule, notebook, rho_loop, gaussian2, binomial,
          sous_groupes, poisson, exit_time>>

\* The programs of the last part of the module.
last == <<poisson, exit_time>>

\* The programs of the second half of the module.
rest == <<partition, va_boule, notebook, rho_loop, gaussian2, binomial,
          sous_groupes, last>>

\* A program that is not run by the specification at hand.
Idle == [pc |-> "idle"]

LastIdle == poisson = Idle /\ exit_time = Idle

RestIdle ==
    /\ partition = Idle /\ va_boule = Idle /\ notebook = Idle
    /\ rho_loop = Idle /\ gaussian2 = Idle /\ binomial = Idle
    /\ sous_groupes = Idle /\ LastIdle

RECURSIVE Pow(_, _)
Pow(b, e) == IF e = 0 THEN 1 ELSE b * Pow(b, e - 1)

Abs(x) == IF x < 0 THEN -x ELSE x

(***************************************************************************)
(* va(n): points "around the unit circle" (accept-reject notebook).        *)
(***************************************************************************)

\* Resolution of np.random.random() in va: draws are k / 2^DiskBits.
DiskBits == 2
DiskDen == Pow(2, DiskBits)
\* Largest n passed to va.
MaxVaN == 2

\* 2 * np.random.random() - 1, as a numerator over DiskDen.
VaCoord(k) == 2 * k - DiskDen

\* u1 * u1 + u2 * u2 <= 1, both coordinates numerators over DiskDen.
InDisk(u1, u2) == u1 * u1 + u2 * u2 <= DiskDen * DiskDen

notVa == <<abs_norm, disc, conf, path, search, mixture, rest>>

VaInit ==
    /\ va \in {[pc |-> "for", n |-> n, i |-> 0, u1 |-> 0, u2 |-> 0,
                X |-> <<>>, Y |-> <<>>] : n \in 0..MaxVaN}
    /\ abs_norm = Idle /\ disc = Idle /\ conf = Idle /\ path = Idle
    /\ search = Idle /\ mixture = Idle
    /\ RestIdle

\* for i in range(n): u1 = 2*random()-1; u2 = 2*random()-1
VaFor ==
    /\ va.pc = "for" /\ va.i < va.n
    /\ \E k1, k2 \in 0..(DiskDen - 1) :
          va' = [va EXCEPT !.u1 = VaCoord(k1), !.u2 = VaCoord(k2), !.pc = "while"]
    /\ UNCHANGED notVa

\* while u1*u1 + u2*u2 <= 1: redraw both coordinates
VaWhile ==
    /\ va.pc = "while" /\ InDisk(va.u1, va.u2)
    /\ \E k1, k2 \in 0..(DiskDen - 1) :
          va' = [va EXCEPT !.u1 = VaCoord(k1), !.u2 = VaCoord(k2)]
    /\ UNCHANGED notVa

\* loop exit: X.append(u1); Y.append(u2); next i
VaAppend ==
    /\ va.pc = "while" /\ ~InDisk(va.u1, va.u2)
    /\ va' = [va EXCEPT !.X = Append(@, va.u1), !.Y = Append(@, va.u2),
                        !.i = @ + 1, !.pc = "for"]
    /\ UNCHANGED notVa

\* return X, Y
VaReturn ==
    /\ va.pc = "for" /\ va.i = va.n
    /\ va' = [va EXCEPT !.pc = "done"]
    /\ UNCHANGED notVa

VaNext == VaFor \/ VaWhile \/ VaAppend \/ VaReturn

SpecVa == VaInit /\ [][VaNext]_vars

\* C1: every point (u1, u2) returned by va(n) lies in the closed unit disk,
\* u1^2 + u2^2 <= 1.
C1_ReturnedPointsInDisk ==
    va.pc = "done" =>
        \A j \in 1..Len(va.X) : InDisk(va.X[j], va.Y[j])

(***************************************************************************)
(* Fixed-point arithmetic for the floating-point functions of numpy.       *)
(* A real v is held as the integer floor(v * Scale).                       *)
(***************************************************************************)

\* Fixed-point scale: three decimal digits.
Scale == 1000
\* Number of Taylor terms summed by ExpFix.
ExpTerms == 24

\* np.pi, as the rational PiNum / PiDen.
PiNum == 355
PiDen == 113

RECURSIVE ExpSum(_, _, _)
ExpSum(x, j, term) ==
    IF j > ExpTerms \/ term = 0 THEN 0
    ELSE term + ExpSum(x, j + 1, (term * x) \div (j * Scale))

\* np.exp(x): x and the result in fixed point; exp(-x) = 1 / exp(x).
ExpFix(x) ==
    IF x >= 0 THEN ExpSum(x, 1, Scale)
    ELSE (Scale * Scale) \div ExpSum(-x, 1, Scale)

SqrtSearch[x \in Nat, lo \in Nat, hi \in Nat] ==
    IF lo >= hi THEN lo
    ELSE LET mid == (lo + hi + 1) \div 2
         IN  IF mid * mid <= x THEN SqrtSearch[x, mid, hi]
             ELSE SqrtSearch[x, lo, mid - 1]

\* np.sqrt(x): x and the result in fixed point (floor of the square root).
SqrtFix(x) == SqrtSearch[x * Scale, 0, 46340]

RECURSIVE LogSearch(_, _, _, _)
LogSearch(num, den, lo, hi) ==
    IF lo >= hi THEN lo
    ELSE LET mid == (lo + hi + 1) \div 2
         IN  IF ExpFix(mid) * den <= num * Scale
             THEN LogSearch(num, den, mid, hi)
             ELSE LogSearch(num, den, lo, mid - 1)

\* np.log(num / den) for num >= den > 0, in fixed point: the largest x with
\* exp(x) <= num / den.
LogFix(num, den) == LogSearch(num, den, 0, 8 * Scale)

(***************************************************************************)
(* exponentielle(lam, n) and abs_norm(n) (accept-reject notebook).         *)
(***************************************************************************)

\* Resolution of np.random.random(): draws are k / 2^Bits, k in 0..2^Bits-1.
Bits == 3
Den == Pow(2, Bits)
Rand == 0..(Den - 1)
\* Largest n passed to abs_norm.
MaxAbsN == 2

\* One element of exponentielle(1, 1): -np.log(1 - u) / lam with lam = 1,
\* u = k / Den.  -log((Den - k) / Den) = log(Den / (Den - k)).
Exponentielle1(k) == LogFix(Den, Den - k)

\* c = np.sqrt(2 * np.exp(1) / np.pi)
AbsNormC == SqrtFix((2 * ExpFix(Scale) * PiDen) \div PiNum)

\* f = 2 / np.sqrt(2 * np.pi) * np.exp(-g**2 / 2)
AbsNormF(g) ==
    LET root == SqrtFix((2 * PiNum * Scale) \div PiDen)
        lead == (2 * Scale * Scale) \div root
    IN  (lead * ExpFix(-((g * g) \div (2 * Scale)))) \div Scale

\* The value float division by -0.0 yields (-inf); below every draw.
MinusInf == -Scale

\* h = f / (c * g).  g = -log(1.0) / 1 is -0.0, c * g is -0.0 and the
\* positive f divided by -0.0 is -inf in float64 arithmetic.
AbsNormH(f, g) ==
    IF g = 0 THEN MinusInf
    ELSE (f * Scale * Scale) \div (AbsNormC * g)

\* u <= h, u = k / Den and h in fixed point
AbsNormTest(k, h) == h # MinusInf /\ k * Scale <= h * Den

notAbsNorm == <<va, disc, conf, path, search, mixture, rest>>

AbsNormInit ==
    /\ abs_norm \in {[pc |-> "while", n |-> n, u |-> 0, g |-> 0, f |-> 0,
                      h |-> 0, L |-> <<>>] : n \in 0..MaxAbsN}
    /\ va = Idle /\ disc = Idle /\ conf = Idle /\ path = Idle
    /\ search = Idle /\ mixture = Idle
    /\ RestIdle

\* The values one iteration computes from its two draws: u, g =
\* exponentielle(1, 1)[0], f and h.
AbsNormPair(ku, kx) ==
    LET g == Exponentielle1(kx)
        f == AbsNormF(g)
    IN  [u |-> ku, g |-> g, f |-> f, h |-> AbsNormH(f, g)]

AbsNormPairs == {AbsNormPair(ku, kx) : ku \in Rand, kx \in Rand}

\* while len(L) < n: draw u, g; compute f and h
AbsNormDraw ==
    /\ abs_norm.pc = "while" /\ Len(abs_norm.L) < abs_norm.n
    /\ \E c \in AbsNormPairs :
          abs_norm' = [abs_norm EXCEPT !.u = c.u, !.g = c.g, !.f = c.f,
                                       !.h = c.h, !.pc = "if"]
    /\ UNCHANGED notAbsNorm

\* The loop head: u, g, f and h of the last iteration are dead there (each
\* is assigned before it is read), and are put back to their initial value.
AtLoopHead(L) ==
    [abs_norm EXCEPT !.pc = "while", !.u = 0, !.g = 0, !.f = 0, !.h = 0,
                     !.L = L]

\* Variant of the accepting branch that inserts the candidate at the front.
AbsNormAcceptInFront ==
    /\ abs_norm.pc = "if" /\ AbsNormTest(abs_norm.u, abs_norm.h)
    /\ abs_norm' = AtLoopHead(<<abs_norm.g>> \o abs_norm.L)
    /\ UNCHANGED notAbsNorm

\* if u <= h: L.append(g)
AbsNormAccept ==
    /\ abs_norm.pc = "if" /\ AbsNormTest(abs_norm.u, abs_norm.h)
    /\ abs_norm' = AtLoopHead(Append(abs_norm.L, abs_norm.g))
    /\ UNCHANGED notAbsNorm

\* u > h: the candidate is dropped
AbsNormReject ==
    /\ abs_norm.pc = "if" /\ ~AbsNormTest(abs_norm.u, abs_norm.h)
    /\ abs_norm' = AtLoopHead(abs_norm.L)
    /\ UNCHANGED notAbsNorm

\* return L
AbsNormReturn ==
    /\ abs_norm.pc = "while" /\ Len(abs_norm.L) = abs_norm.n
    /\ abs_norm' = [abs_norm EXCEPT !.pc = "done"]
    /\ UNCHANGED notAbsNorm

AbsNormNext == AbsNormDraw \/ AbsNormAccept \/ AbsNormReject \/ AbsNormReturn

SpecAbsNorm == AbsNormInit /\ [][AbsNormNext]_vars

\* The documented acceptance ratio f(x) / (c * g(x)) with the proposal
\* density g(x) = exp(-x), in fixed point.
DensityRatio(x) ==
    (AbsNormF(x) * Scale * Scale) \div (AbsNormC * ExpFix(-x))

\* C2: a candidate x is accepted iff u <= f(x) / (c * g(x)) with g(x) = exp(-x)
\* the proposal density, and the ratio compared against u never exceeds 1
\* for any x > 0.
C2_AcceptIffBelowDensityRatio ==
    (abs_norm.pc = "if" /\ abs_norm.g > 0) =>
        /\ AbsNormTest(abs_norm.u, abs_norm.h)
              <=> abs_norm.u * Scale <= DensityRatio(abs_norm.g) * Den
        /\ abs_norm.h <= Scale

(***************************************************************************)
(* Threshold samplers: sampleX, sampleY (Monte-Carlo notebook), density,   *)
(* bernoulli and the Gaussian-mixture component selector (basic laws).     *)
(* A draw u is the numerator k of k / Den.  A probability is a pair        *)
(* <<numerator, denominator>>.                                             *)
(***************************************************************************)

\* Largest sample size n of a threshold sampler.
MaxDiscN == 2

\* sampleX with the comparisons written < instead of <=.
SampleXOutcomeStrict(k) ==
    IF k * 3 < Den THEN -1
    ELSE IF k * 2 < Den THEN 0
    ELSE 1

\* sampleX: if u <= 1/3: -1  elif u <= 1/2: 0  else: 1
SampleXOutcome(k) ==
    IF k * 3 <= Den THEN -1
    ELSE IF k * 2 <= Den THEN 0
    ELSE 1

\* sampleY: if u <= 1/60: -1  elif u <= 1/60 + 4/5: 0  else: 1
SampleYOutcome(k) ==
    IF k * 60 <= Den THEN -1
    ELSE IF k * 60 <= 49 * Den THEN 0
    ELSE 1

\* density(): outcomes 0.5, 1, 1.5, 2 are held in halves (1, 2, 3, 4).
\* if k <= 1/4  elif 1/4 <= k <= 3/8  elif 3/8 <= k <= 1/2  else
DensityOutcome(k) ==
    IF k * 4 <= Den THEN 1
    ELSE IF Den <= k * 4 /\ k * 8 <= 3 * Den THEN 2
    ELSE IF 3 * Den <= k * 8 /\ k * 2 <= Den THEN 3
    ELSE 4

\* bernoulli: int(np.random.random() < p), p = p[1] / p[2]
BernoulliOutcome(k, p) == IF k * p[2] < p[1] * Den THEN 1 ELSE 0

\* mixture selector: if u <= p[0]: component N(-3, 1) else component N(3, 1);
\* the outcome is the mean of the selected component.
MixtureOutcome(k, p) == IF k * p[2] <= p[1] * Den THEN -3 ELSE 3

\* The values of p passed to bernoulli: the calls of the notebook (0.3, 0.1),
\* a dyadic p, and two values outside [0, 1].
BernoulliP == {<<3, 10>>, <<1, 10>>, <<1, 2>>, <<-1, 4>>, <<5, 4>>}

\* P = [(0.5,0.5),(1/4,3/4),(3/4,1/4)]: the first weights p[0] of the mixture
MixtureP == {<<1, 2>>, <<1, 4>>, <<3, 4>>}

\* The values np.random.normal(loc, 1) - loc can take, in units of one sigma.
NormalDraws == {-1, 0, 1}

notDisc == <<va, abs_norm, conf, path, search, mixture, rest>>

DiscStart(fn, n, p) ==
    [pc |-> "for", fn |-> fn, n |-> n, p |-> p, i |-> 0, u |-> <<>>,
     A |-> IF fn \in {"sampleX", "sampleY", "mixture"}
           THEN [j \in 1..n |-> 0] ELSE <<>>,
     normal |-> <<>>, err |-> "none"]

DiscInit ==
    /\ disc \in
         {DiscStart(fn, n, <<1, 1>>) :
             fn \in {"sampleX", "sampleY", "density"}, n \in 0..MaxDiscN}
         \cup {DiscStart("bernoulli", n, p) : n \in 0..MaxDiscN, p \in BernoulliP}
         \cup {DiscStart("mixture", n, p) : n \in 0..MaxDiscN, p \in MixtureP}
    /\ va = Idle /\ abs_norm = Idle /\ conf = Idle /\ path = Idle
    /\ search = Idle /\ mixture = Idle
    /\ RestIdle

\* sampleX: one iteration of  for i in range(n)
SampleXStep ==
    /\ disc.pc = "for" /\ disc.fn = "sampleX" /\ disc.i < disc.n
    /\ \E k \in Rand :
          disc' = [disc EXCEPT !.u = Append(@, k), !.i = @ + 1,
                               !.A[disc.i + 1] = SampleXOutcome(k)]
    /\ UNCHANGED notDisc

\* sampleY: one iteration of  for i in range(n)
SampleYStep ==
    /\ disc.pc = "for" /\ disc.fn = "sampleY" /\ disc.i < disc.n
    /\ \E k \in Rand :
          disc' = [disc EXCEPT !.u = Append(@, k), !.i = @ + 1,
                               !.A[disc.i + 1] = SampleYOutcome(k)]
    /\ UNCHANGED notDisc

\* [density() for _ in range(n)]: one call of density()
DensityStep ==
    /\ disc.pc = "for" /\ disc.fn = "density" /\ disc.i < disc.n
    /\ \E k \in Rand :
          disc' = [disc EXCEPT !.u = Append(@, k), !.i = @ + 1,
                               !.A = Append(@, DensityOutcome(k))]
    /\ UNCHANGED notDisc

\* bernoulli: one element of the list comprehension
BernoulliStep ==
    /\ disc.pc = "for" /\ disc.fn = "bernoulli" /\ disc.i < disc.n
    /\ \E k \in Rand :
          disc' = [disc EXCEPT !.u = Append(@, k), !.i = @ + 1,
                               !.A = Append(@, BernoulliOutcome(k, disc.p))]
    /\ UNCHANGED notDisc

\* Gaussian mixture: one iteration of  for i in range(10000); the sample
\* value is np.random.normal(loc, 1) of the selected component.  normal is
\* the list of the values np.random.normal has returned.
MixtureStep ==
    /\ disc.pc = "for" /\ disc.fn = "mixture" /\ disc.i < disc.n
    /\ \E k \in Rand, z \in NormalDraws :
          disc' = [disc EXCEPT !.u = Append(@, k), !.i = @ + 1,
                               !.normal = Append(@, z),
                               !.A[disc.i + 1] = MixtureOutcome(k, disc.p) + z]
    /\ UNCHANGED notDisc

\* the loop is exhausted: the sample is returned
DiscReturn ==
    /\ disc.pc = "for" /\ disc.i = disc.n
    /\ disc' = [disc EXCEPT !.pc = "done"]
    /\ UNCHANGED notDisc

DiscNext ==
    \/ SampleXStep \/ SampleYStep \/ DensityStep
    \/ BernoulliStep \/ MixtureStep \/ DiscReturn

SpecDisc == DiscInit /\ [][DiscNext]_vars

\* C22: every random value a sampler consumes comes from np.random.random:
\* no sampler obtains a value from another primitive such as
\* np.random.normal.
C22_OnlyUniformSource ==
    disc.pc # "idle" => disc.normal = <<>>

\* The documented laws, in the listed order: <<outcome, numerator, denominator>>.
\* P(X=-1) = 1/3, P(X=0) = 1/6, P(X=1) = 1/2
LawX == <<<<-1, 1, 3>>, <<0, 1, 6>>, <<1, 1, 2>>>>
\* P(Y=-1) = 1/60, P(Y=0) = 4/5, P(Y=1) = 11/60
LawY == <<<<-1, 1, 60>>, <<0, 4, 5>>, <<1, 11, 60>>>>
\* P(a1) = 0.25, P(a2) = 0.125, P(a3) = 0.125, P(a4) = 0.5; outcomes in halves
LawDensity == <<<<1, 1, 4>>, <<2, 1, 8>>, <<3, 1, 8>>, <<4, 1, 2>>>>
\* bernoulli(n, p): 1 with probability p, 0 with probability 1 - p
LawBernoulli(p) == <<<<1, p[1], p[2]>>, <<0, p[2] - p[1], p[2]>>>>
\* mixture: component N(-3,1) with weight p[0], N(3,1) with weight 1 - p[0]
LawMixture(p) == <<<<-3, p[1], p[2]>>, <<3, p[2] - p[1], p[2]>>>>

\* Walk of the cumulative partition of a law: the first outcome, in the
\* listed order, whose cumulative upper bound cn / cd exceeds u = k / Den
\* (strictly, or "upper-bound inclusive": is at least u).  The last outcome,
\* whose bound is 1, takes whatever is left.
RECURSIVE Walk(_, _, _, _, _, _)
Walk(law, j, cn, cd, k, strict) ==
    LET n2 == cn * law[j][3] + law[j][2] * cd
        d2 == cd * law[j][3]
        hit == IF strict THEN k * d2 < n2 * Den ELSE k * d2 <= n2 * Den
    IN  IF j = Len(law) \/ hit THEN law[j][1]
        ELSE Walk(law, j + 1, n2, d2, k, strict)

FirstExceeding(law, k) == Walk(law, 1, 0, 1, k, TRUE)
FirstAtLeast(law, k) == Walk(law, 1, 0, 1, k, FALSE)

HardCoded == {"sampleX", "sampleY", "density"}

LawOf(fn, p) ==
    CASE fn = "sampleX" -> LawX
      [] fn = "sampleY" -> LawY
      [] fn = "density" -> LawDensity
      [] fn = "bernoulli" -> LawBernoulli(p)
      [] fn = "mixture" -> LawMixture(p)

\* The outcome recorded for draw j: the stored value, and for the mixture the
\* mean of the component the stored value was drawn from.
OutcomeAt(j) ==
    IF disc.fn = "mixture" THEN (IF disc.A[j] < 0 THEN -3 ELSE 3)
    ELSE disc.A[j]

\* 0 <= p <= 1
WellFormed(p) == 0 <= p[1] /\ p[1] <= p[2]

\* C3 (as stated): for every draw u, each hard-coded sampler returns the first
\* outcome, in the listed order, whose cumulative upper bound strictly
\* exceeds u.
C3_FirstStrictlyExceeding ==
    disc.fn \in HardCoded =>
        \A j \in 1..Len(disc.u) :
            disc.A[j] = FirstExceeding(LawOf(disc.fn, disc.p), disc.u[j])

\* C3 (amended): for every draw u, each hard-coded sampler (sampleX, sampleY,
\* density) returns the first outcome, in the listed order, whose cumulative
\* upper bound is greater than or equal to u.
C3_FirstAtLeast ==
    disc.fn \in HardCoded =>
        \A j \in 1..Len(disc.u) :
            disc.A[j] = FirstAtLeast(LawOf(disc.fn, disc.p), disc.u[j])

\* C3 witness: sampleX has drawn u = 1/2, the breakpoint between 0 and 1,
\* and has stored 0 for it.
C3_Witness ==
    /\ disc.fn = "sampleX" /\ disc.pc = "done"
    /\ \E j \in 1..Len(disc.u) : disc.u[j] * 2 = Den /\ disc.A[j] = 0

\* C4: every threshold sampler assigns a draw that equals a cumulative
\* breakpoint to the outcome whose interval ends at that breakpoint
\* (upper-bound inclusive), each draw going to exactly one outcome.
C4_UpperBoundInclusive ==
    (disc.pc # "idle" /\ WellFormed(disc.p)) =>
        \A j \in 1..Len(disc.u) :
            OutcomeAt(j) = FirstAtLeast(LawOf(disc.fn, disc.p), disc.u[j])

\* C8: bernoulli(n, p) with p < 0 or p > 1 fails with InvalidDistribution and
\* produces no draw, not even a partial sample.
C8_MalformedFails ==
    (disc.pc # "idle" /\ disc.fn = "bernoulli" /\ ~WellFormed(disc.p)
        /\ disc.n > 0) =>
        /\ Len(disc.A) = 0
        /\ disc.pc = "done" => disc.err = "InvalidDistribution"

(***************************************************************************)
(* Means, variances and confidence intervals (Monte-Carlo notebook):       *)
(*   X = [np.mean(sampleX(i)) for i in range(1, N)]          (means cell)  *)
(*   [np.std(sampleX(i)) ** 2 for i in range(1, N)]       (variances cell) *)
(*   confX = [1.96 * np.std(sampleX(i)) / np.sqrt(i) ...]      (conf cell) *)
(* and the same for Y, and the E[g(X)] cell.  Sample values are held in    *)
(* fixed point.  centre[i] and width[i] are the arrays the i-th centre and *)
(* the i-th half-width were computed from.                                 *)
(***************************************************************************)

\* N of the cells: sample sizes are range(1, N).
MaxConfN == 3

SumSeq[s \in Seq(Int)] == IF s = <<>> THEN 0 ELSE Head(s) + SumSeq[Tail(s)]

\* np.mean(a)
Mean(a) == SumSeq[a] \div Len(a)

\* np.std(a) = sqrt(mean(|a - mean(a)|^2)); no check of the size of a.
Std(a) ==
    LET m == Mean(a)
        sq == [j \in 1..Len(a) |-> ((a[j] - m) * (a[j] - m)) \div Scale]
    IN  SqrtFix(Mean(sq))

\* 1.96 * std / np.sqrt(i)
HalfWidth(std, i) == (196 * std * Scale) \div (100 * SqrtFix(i * Scale))

\* sampleX(i) / sampleY(i) from the draws ks, in fixed point
SampleOf(law, ks) ==
    [j \in 1..Len(ks) |->
        Scale * (IF law = "X" THEN SampleXOutcome(ks[j]) ELSE SampleYOutcome(ks[j]))]

\* np.random.normal(size=x): the values a standard normal draw takes here
NormalFix == {-Scale, Scale \div 2, 2 * Scale}

\* g = lambda x : x ** 2 if x >= 0.5 else 0
G(x) == IF 2 * x >= Scale THEN (x * x) \div Scale ELSE 0

notConf == <<va, abs_norm, disc, path, search, mixture, rest>>

ConfInit ==
    /\ conf \in {[pc |-> IF law = "g" THEN "for" ELSE "means", law |-> law,
                  N |-> MaxConfN, i |-> 1, X |-> <<>>, std |-> <<>>,
                  confX |-> <<>>, centre |-> <<>>, width |-> <<>>,
                  err |-> "none"] : law \in {"X", "Y", "g"}}
    /\ va = Idle /\ abs_norm = Idle /\ disc = Idle /\ path = Idle
    /\ search = Idle /\ mixture = Idle
    /\ RestIdle

\* Position after iteration i of a  for i in range(1, N)  that is followed
\* by the stage next.
AfterIter(next) ==
    IF conf.i + 1 = conf.N THEN [pc |-> next, i |-> 1]
    ELSE [pc |-> conf.pc, i |-> conf.i + 1]

\* X = [np.mean(sampleX(i)) for i in range(1, N)]: one element
ConfMeans ==
    /\ conf.pc = "means"
    /\ \E ks \in [1..conf.i -> Rand] :
          LET sample == SampleOf(conf.law, ks)
              to == AfterIter("variances")
          IN  conf' = [conf EXCEPT !.X = Append(@, Mean(sample)),
                                   !.centre = Append(@, sample),
                                   !.pc = to.pc, !.i = to.i]
    /\ UNCHANGED notConf

\* [np.std(sampleX(i)) ** 2 for i in range(1, N)]: one element
ConfVariances ==
    /\ conf.pc = "variances"
    /\ \E ks \in [1..conf.i -> Rand] :
          LET sd == Std(SampleOf(conf.law, ks))
              to == AfterIter("conf")
          IN  conf' = [conf EXCEPT !.std = Append(@, (sd * sd) \div Scale),
                                   !.pc = to.pc, !.i = to.i]
    /\ UNCHANGED notConf

\* confX = [1.96 * np.std(sampleX(i)) / np.sqrt(i) for i in range(1, N)]:
\* one element
ConfHalfWidth ==
    /\ conf.pc = "conf" /\ conf.law # "g"
    /\ \E ks \in [1..conf.i -> Rand] :
          LET sample == SampleOf(conf.law, ks)
              to == AfterIter("done")
          IN  conf' = [conf EXCEPT !.confX = Append(@, HalfWidth(Std(sample), conf.i)),
                                   !.width = Append(@, sample),
                                   !.pc = to.pc, !.i = to.i]
    /\ UNCHANGED notConf

\* for x in X: sample = np.random.normal(size=x); gX = [g(x) for x in sample];
\* means.append(np.mean(gX)); std.append(np.std(gX))
GLoop ==
    /\ conf.pc = "for"
    /\ \E sample \in [1..conf.i -> NormalFix] :
          LET gX == [j \in 1..conf.i |-> G(sample[j])]
              to == AfterIter("conf")
          IN  conf' = [conf EXCEPT !.X = Append(@, Mean(gX)),
                                   !.std = Append(@, Std(gX)),
                                   !.centre = Append(@, sample),
                                   !.width = Append(@, sample),
                                   !.pc = to.pc, !.i = to.i]
    /\ UNCHANGED notConf

\* conf = np.array([1.96 * std[i - 1] / np.sqrt(i) for i in X])
GConf ==
    /\ conf.pc = "conf" /\ conf.law = "g"
    /\ conf' = [conf EXCEPT
                  !.confX = [i \in 1..Len(conf.std) |-> HalfWidth(conf.std[i], i)],
                  !.pc = "done"]
    /\ UNCHANGED notConf

ConfNext == ConfMeans \/ ConfVariances \/ ConfHalfWidth \/ GLoop \/ GConf

SpecConf == ConfInit /\ [][ConfNext]_vars

\* C5: for every sample size i of a confidence-interval plot, the centre and
\* the half-width are derived from the same i draws, in the X/Y cell as in
\* the E[g(X)] cell.
C5_CentreAndWidthFromSameDraws ==
    conf.pc # "idle" =>
        \A i \in 1..Len(conf.confX) : conf.centre[i] = conf.width[i]

\* C7: a standard deviation or a half-width computed from a sample of size
\* n = 0 or n = 1 fails with InvalidSampleSize instead of returning a number.
C7_SmallSampleFails ==
    (conf.pc # "idle" /\ (Len(conf.std) >= 1 \/ Len(conf.confX) >= 1)) =>
        conf.err = "InvalidSampleSize"

(***************************************************************************)
(* Normal law and Monte-Carlo simulation, first model (Monte-Carlo         *)
(* notebook).  n, x0, sigma, a, b and the loop index i are globals of the  *)
(* notebook; generateSample() reads them.  Paths are in fixed point.       *)
(***************************************************************************)

\* n, the length of a path (30 in the notebook).
PathN == 3
\* N, the number of simulations (10 ** 4 in the notebook).
MaxSims == 2

\* x0 = 20; a = 8; b = 36
x0 == 20
a == 8
b == 36
\* sigma = 0.9
sigma == (9 * Scale) \div 10

\* x0 * (-sigma ** 2 / 2) * k / n + sigma * np.sqrt(k / n) * Y[i]
\* i is the global i; Python indexes from 0, sequences from 1.
PathElement(Y, k, i) ==
    LET drift == 0 - ((sigma * sigma) \div Scale) \div 2
    IN  (x0 * drift * k) \div PathN
        + (((sigma * SqrtFix((k * Scale) \div PathN)) \div Scale) * Y[i + 1]) \div Scale

\* generateSample(): X = [... for k in range(n)]
GenerateSample(Y, i) == [k1 \in 1..PathN |-> PathElement(Y, k1 - 1, i)]

\* The exit-time loop with the test  sample[i] <= a or sample[i] >= b.
RECURSIVE ExitLoopAtBounds(_, _)
ExitLoopAtBounds(sample, i) ==
    IF i = PathN THEN [tau |-> PathN + 1, i |-> PathN - 1]
    ELSE IF sample[i + 1] <= a * Scale \/ sample[i + 1] >= b * Scale
         THEN [tau |-> i, i |-> i]
         ELSE ExitLoopAtBounds(sample, i + 1)

\* for i in range(n): if sample[i] < a or sample[i] > b: tau = i; break
\* The result is tau and the value the loop leaves in the global i.
RECURSIVE ExitLoop(_, _)
ExitLoop(sample, i) ==
    IF i = PathN THEN [tau |-> PathN + 1, i |-> PathN - 1]
    ELSE IF sample[i + 1] < a * Scale \/ sample[i + 1] > b * Scale
         THEN [tau |-> i, i |-> i]
         ELSE ExitLoop(sample, i + 1)

\* (np.abs(x - a) if np.abs(x - a) < np.abs(x - b) else np.abs(x - b))
\*     if tau > n else 0
HSample(sample, tau) ==
    [k1 \in 1..PathN |->
        IF tau > PathN
        THEN (IF Abs(sample[k1] - a * Scale) < Abs(sample[k1] - b * Scale)
              THEN Abs(sample[k1] - a * Scale) ELSE Abs(sample[k1] - b * Scale))
        ELSE 0]

notPath == <<va, abs_norm, disc, conf, search, mixture, rest>>

\* The state after the cell that computes the theoretical expectancy: its
\* loop  for i in range(1, n)  leaves i = n - 1.  calls is the list of the
\* calls of generateSample() made so far: the draws and the returned path.
PathInit ==
    /\ path = [pc |-> "for", i |-> PathN - 1, runs |-> 0, Y |-> <<>>,
               sample |-> <<>>, tau |-> 0, hsample |-> <<>>, means |-> <<>>,
               calls |-> <<>>, estimate |-> 0]
    /\ va = Idle /\ abs_norm = Idle /\ disc = Idle /\ conf = Idle
    /\ search = Idle /\ mixture = Idle
    /\ RestIdle

\* One iteration of  for _ in range(N): generateSample(), the exit-time
\* loop, hsample, means.append(np.mean(sample)).
Simulate ==
    /\ path.pc = "for" /\ path.runs < MaxSims
    /\ \E Y \in [1..PathN -> NormalFix] :
          LET sample == GenerateSample(Y, path.i)
              exit == ExitLoop(sample, 0)
          IN  path' = [path EXCEPT
                         !.Y = Y, !.sample = sample,
                         !.tau = exit.tau, !.i = exit.i,
                         !.hsample = HSample(sample, exit.tau),
                         !.means = Append(@, Mean(sample)),
                         !.calls = Append(@, [Y |-> Y, sample |-> sample]),
                         !.runs = @ + 1]
    /\ UNCHANGED notPath

\* print(f"The Monte-Carlo simulation gives an estimate of {np.mean(means)}.")
PrintEstimate ==
    /\ path.pc = "for" /\ path.runs = MaxSims
    /\ path' = [path EXCEPT !.estimate = Mean(path.means), !.pc = "done"]
    /\ UNCHANGED notPath

PathNext == Simulate \/ PrintEstimate

SpecPath == PathInit /\ [][PathNext]_vars

\* C6: the path returned by generateSample() is a function only of the normal
\* draws it makes and of n, x0, sigma: two calls that receive identical draws
\* return identical paths, whatever the global loop index i holds.
C6_PathDependsOnlyOnDraws ==
    path.pc # "idle" =>
        \A c1, c2 \in 1..Len(path.calls) :
            path.calls[c1].Y = path.calls[c2].Y
                => path.calls[c1].sample = path.calls[c2].sample

\* C21: every generated path starts at the initial value: the first element
\* of the array returned by generateSample() equals x0.
C21_PathStartsAtX0 ==
    (path.pc # "idle" /\ path.runs > 0) => path.sample[1] = x0 * Scale

\* C23: in generateSample() the k-th path element is computed from the k-th
\* normal draw Y[k], for every k in 0..n-1: the index used into Y is k.
C23_ElementKUsesDrawK ==
    (path.pc # "idle" /\ path.runs > 0) =>
        \A k \in 0..(PathN - 1) :
            path.sample[k + 1] = PathElement(path.Y, k, k)

\* C14: the per-path quantity appended to means is the mean of hsample, the
\* stopped payoff h(X) * 1{tau > n} of the path just simulated.
C14_MeansFromHSample ==
    (path.pc # "idle" /\ path.runs > 0) =>
        /\ Len(path.means) = path.runs
        /\ path.means[path.runs] = Mean(path.hsample)

(***************************************************************************)
(* Estimation error (Monte-Carlo notebook): the two cells that search the  *)
(* sample size N0 for X and then for Y,                                    *)
(*     n = lower;  X = sampleX(n)                                          *)
(*     while 1.96 * np.std(X) / np.sqrt(len(X)) > threshold:               *)
(*         n += step;  X = sampleX(n)                                      *)
(*     print("N0 for X is", n)                                             *)
(* The lower bounds, steps and thresholds of the notebook (100, 3 * 10**6, *)
(* 5 * 10**5; 1, 1000; 0.01, 0.001) are scaled down to sizes whose sample  *)
(* arrays can be enumerated; the loops are the notebook's.                 *)
(***************************************************************************)

\* cell 1: n = 100, n += 1, threshold 0.01 (here in tenths)
Lower1 == 2
Step1 == 1
Thr1Tenths == 10
\* cell 2: n = 3 * 10 ** 6 for X, n = 5 * 10 ** 5 for Y, n += 1000,
\* threshold 0.001 (here in tenths)
Lower2X == 4
Lower2Y == 3
Step2 == 2
Thr2Tenths == 9

Lower(cell, var) ==
    IF cell = 1 THEN Lower1 ELSE IF var = "X" THEN Lower2X ELSE Lower2Y
Step(cell) == IF cell = 1 THEN Step1 ELSE Step2
Threshold(cell) ==
    ((IF cell = 1 THEN Thr1Tenths ELSE Thr2Tenths) * Scale) \div 10

\* The sampler each search draws from: cell 1 uses sampleX for X and sampleY
\* for Y; cell 2 uses sampleX for X and  Y = sampleX(n)  for Y.
SearchSampler(cell, var) ==
    IF cell = 1 /\ var = "Y" THEN "Y" ELSE "X"

\* Arrays with draws in {-2, 0, 2}.
SampleArraysWide(law, n) ==
    [1..n -> {2 * Scale * (IF law = "X" THEN SampleXOutcome(k)
                           ELSE SampleYOutcome(k)) : k \in Rand}]

\* The arrays sampleX(n) / sampleY(n) can return, in fixed point.
SampleArrays(law, n) ==
    [1..n -> {Scale * (IF law = "X" THEN SampleXOutcome(k) ELSE SampleYOutcome(k)) :
                 k \in Rand}]

\* 1.96 * np.std(X) / np.sqrt(len(X)) > threshold
TooWide(S, cell) == HalfWidth(Std(S), Len(S)) > Threshold(cell)

notSearch == <<va, abs_norm, disc, conf, path, mixture, rest>>

\* out is what the cell has printed: the label and the value of n; sampler
\* is the law of the function that returned S ("X" for sampleX, "Y" for
\* sampleY, "none" before the first call).
SearchInit ==
    /\ search \in {[pc |-> "if", compute_error |-> ce, cell |-> cell,
                    var |-> "X", n |-> 0, S |-> <<>>, sampler |-> "none",
                    out |-> <<>>] :
                       ce \in BOOLEAN, cell \in {1, 2}}
    /\ va = Idle /\ abs_norm = Idle /\ disc = Idle /\ conf = Idle
    /\ path = Idle /\ mixture = Idle
    /\ RestIdle

\* The states in which the cell has just set n and drawn a sample of size n
\* from the sampler law, and is about to evaluate the while test; everything
\* else is as before.
Drawn(var, n, law) ==
    [pc : {"while"}, compute_error : {search.compute_error},
     cell : {search.cell}, var : {var}, n : {n}, S : SampleArrays(law, n),
     sampler : {law}, out : {search.out}]

\* if compute_error: n = lower; X = sampleX(n)
SearchStart ==
    /\ search.pc = "if" /\ search.compute_error
    /\ search' \in Drawn(search.var, Lower(search.cell, search.var),
                         SearchSampler(search.cell, search.var))
    /\ UNCHANGED notSearch

\* else: print("Computing error has been disabled ...")
SearchDisabled ==
    /\ search.pc = "if" /\ ~search.compute_error
    /\ search' = [search EXCEPT !.out = Append(@, [label |-> "disabled", n |-> 0]),
                                !.pc = "done"]
    /\ UNCHANGED notSearch

\* while 1.96 * np.std(X) / np.sqrt(len(X)) > threshold: the test holds
SearchWhile ==
    /\ search.pc = "while" /\ TooWide(search.S, search.cell)
    /\ search' = [search EXCEPT !.pc = "body"]
    /\ UNCHANGED notSearch

\* The loop body without its first statement: X = sampleX(n) alone, n is
\* never increased.
SearchBodyNoStep ==
    /\ search.pc = "body"
    /\ search' \in Drawn(search.var, search.n,
                         SearchSampler(search.cell, search.var))
    /\ UNCHANGED notSearch

\* loop body: n += step; X = sampleX(n)
SearchBody ==
    /\ search.pc = "body"
    /\ search' \in Drawn(search.var, search.n + Step(search.cell),
                         SearchSampler(search.cell, search.var))
    /\ UNCHANGED notSearch

\* the test fails: print("N0 for X is", n), then the search for Y, then the
\* end of the cell
SearchPrint ==
    /\ search.pc = "while" /\ ~TooWide(search.S, search.cell)
    /\ search' = [search EXCEPT
                    !.out = Append(@, [label |-> search.var, n |-> search.n]),
                    !.pc = IF search.var = "X" THEN "next" ELSE "done"]
    /\ UNCHANGED notSearch

\* n = lower; Y = sampleY(n)   (cell 2: Y = sampleX(n))
SearchStartY ==
    /\ search.pc = "next"
    /\ search' \in Drawn("Y", Lower(search.cell, "Y"),
                         SearchSampler(search.cell, "Y"))
    /\ UNCHANGED notSearch

SearchNext ==
    \/ SearchStart \/ SearchDisabled \/ SearchWhile \/ SearchBody
    \/ SearchPrint \/ SearchStartY

\* The notebook kernel runs a cell to its end: a step that can be taken is
\* taken.
SpecSearch == SearchInit /\ [][SearchNext]_vars /\ WF_vars(SearchNext)

\* A search loop has been left: S is the last sample it drew.
SearchLeft == search.pc \in {"next", "done"} /\ search.compute_error

\* C9: with compute_error enabled every estimation-error search loop
\* terminates; on exit the half-width of the last drawn sample is at most the
\* threshold and the printed n is the size of that last sample.
C9_SearchTerminates ==
    /\ <>(search.pc = "done")
    /\ [](SearchLeft =>
            /\ HalfWidth(Std(search.S), Len(search.S)) <= Threshold(search.cell)
            /\ search.out[Len(search.out)].n = Len(search.S))

\* C9 witness: both searches of a cell have ended and the search for Y went
\* through its loop body at least once before it printed.
C9_Witness ==
    /\ search.pc = "done" /\ search.compute_error
    /\ Len(search.out) = 2
    /\ search.out[2].n > Lower(search.cell, "Y")

\* C16: in both estimation-error cells every sample of the search printed as
\* "N0 for Y" is drawn from sampleY, and every sample of the search printed
\* as "N0 for X" from sampleX.
C16_EachSearchDrawsFromItsLaw ==
    (search.pc \in {"while", "body", "next", "done"} /\ search.compute_error)
        => search.sampler = search.var

\* (1.96 / threshold)^2 for the first cell, rounded up to a size the loop
\* can take: the loop body runs only at sizes m with m < (1.96 / threshold)^2,
\* i.e. m * 100 * Thr1Tenths^2 < 196^2, and then adds the step.
SearchCap == ((196 * 196 - 1) \div (100 * Thr1Tenths * Thr1Tenths)) + Step1

\* C27: every draw of sampleX and sampleY is in {-1, 0, 1}, so the standard
\* deviation of a sample is at most 1 and the searches of the first cell
\* never take n past (1.96 / threshold)^2: lower bound <= n <= cap holds in
\* every state of those loops, although the code has no iteration cap.
C27_FirstCellSearchBounded ==
    (search.pc \in {"while", "body", "next", "done"} /\ search.compute_error
        /\ search.cell = 1) =>
        /\ \A j \in 1..Len(search.S) : search.S[j] \in {-Scale, 0, Scale}
        /\ Std(search.S) <= Scale
        /\ Lower1 <= search.n
        /\ search.n <= (IF Lower1 > SearchCap THEN Lower1 ELSE SearchCap)

\* C27 witness: a search of the first cell has gone through its loop body
\* up to the cap and stopped there.
C27_Witness ==
    /\ search.pc = "done" /\ search.compute_error /\ search.cell = 1
    /\ search.n = SearchCap /\ search.n > Lower1

\* ------------------------------------------------------------------------
\* Mixture sampling by grid search (unnamed/part_001, second notebook).
\* P = [1/6, 1/3, 1/2]; f1 = 1 on [0, 1], f2 = (2x - 1) / 2 on (1, 2],
\* f3 = 2/3 * (-3x + 9) on (2, 3].  quad is taken as the exact integral.
\* ------------------------------------------------------------------------

\* np.linspace(lo, lo + 1, 1000): GridN points here
GridN == 4
\* V = np.random.random(10000): MixN draws here
MixN == 3

\* Pf1[0], Pf2[0], Pf3[0], in sixths: 1/6, 1/3, 1/2
Pf1 == 1
Pf2 == 2
Pf3 == 3

\* The branch taken for v = k / Den:
\* if v <= Pf1[0] / elif Pf1[0] < v <= Pf1[0] + Pf2[0] / else
Piece(k) ==
    IF 6 * k <= Pf1 * Den THEN 1
    ELSE IF 6 * k <= (Pf1 + Pf2) * Den THEN 2
    ELSE 3

\* The grid point x = (piece - 1) + j / (GridN - 1), j = 0 .. GridN - 1, is
\* kept as the integer (piece - 1) * (GridN - 1) + j.
GridPoint(piece, j) == (piece - 1) * (GridN - 1) + j

\* The right side of the test at grid point j of the piece, as the numerator
\* over CumDen:
\*   piece 1:  quad(P[0] * f1, 0, x)                       = x / 6
\*   piece 2:  Pf1[0] + quad(P[1] * f2, 1, x)              = 1/6 + (x^2 - x) / 6
\*   piece 3:  Pf1[0] + Pf2[0] + quad(P[2] * f3, 2, x)     = 1/2 + (-x^2 + 6x - 8) / 2
CumDen == 6 * (GridN - 1) * (GridN - 1)
CumNum(piece, j) ==
    LET m == GridN - 1
    IN  IF piece = 1 THEN j * m
        ELSE IF piece = 2 THEN Pf1 * m * m + (j * m + j * j)
        ELSE (Pf1 + Pf2) * m * m + 3 * (2 * j * m - j * j)

\* The test written with > instead of >=.
GridTestStrict(k, piece, j) == k * CumDen > CumNum(piece, j) * Den

\* if v >= <cumulative value at x>
GridTest(k, piece, j) == k * CumDen >= CumNum(piece, j) * Den

\* No grid point passed the test: the for loop ends without a break.
NoPoint == -1

\* for x in np.linspace(...): if v >= ...: sample.append(x); break
RECURSIVE GridSearch(_, _, _)
GridSearch(k, piece, j) ==
    IF j >= GridN THEN NoPoint
    ELSE IF GridTest(k, piece, j) THEN GridPoint(piece, j)
    ELSE GridSearch(k, piece, j + 1)

notMixture == <<va, abs_norm, disc, conf, path, search, rest>>

MixtureInit ==
    /\ mixture = [pc |-> "start", V |-> <<>>, i |-> 0, sample |-> <<>>]
    /\ va = Idle /\ abs_norm = Idle /\ disc = Idle /\ conf = Idle
    /\ path = Idle /\ search = Idle
    /\ RestIdle

\* V = np.random.random(10000); sample = []
MixtureDraw ==
    /\ mixture.pc = "start"
    /\ mixture' \in [pc : {"for"}, V : [1..MixN -> Rand], i : {0},
                     sample : {<<>>}]
    /\ UNCHANGED notMixture

\* for v in V: one iteration, the inner loop included
MixtureFor ==
    /\ mixture.pc = "for" /\ mixture.i < Len(mixture.V)
    /\ LET v == mixture.V[mixture.i + 1]
           x == GridSearch(v, Piece(v), 0)
       IN  mixture' = [mixture EXCEPT
                         !.i = @ + 1,
                         !.sample = IF x = NoPoint THEN @ ELSE Append(@, x)]
    /\ UNCHANGED notMixture

\* plt.hist(sample, density=True, ec='white')
MixtureHist ==
    /\ mixture.pc = "for" /\ mixture.i = Len(mixture.V)
    /\ mixture' = [mixture EXCEPT !.pc = "done"]
    /\ UNCHANGED notMixture

MixtureNext == MixtureDraw \/ MixtureFor \/ MixtureHist

SpecMixture == MixtureInit /\ [][MixtureNext]_vars

\* The grid indices of the piece whose cumulative value exceeds v = k / Den.
GridAbove(k, piece) ==
    {j \in 0..(GridN - 1) : CumNum(piece, j) * Den > k * CumDen}

\* The grid points of the interval [piece - 1, piece]
PieceInterval(piece) == GridPoint(piece, 0)..GridPoint(piece, GridN - 1)

\* C25: for every uniform v the mixture sampler appends exactly one value,
\* which lies in the interval of the piece selected by v (piece 1 iff
\* v <= Pf1, piece 2 iff Pf1 < v <= Pf1 + Pf2, piece 3 otherwise): the length
\* of sample is the number of uniforms consumed.
C25_OneValueInSelectedPiece ==
    mixture.pc \in {"for", "done"} =>
        /\ Len(mixture.sample) = mixture.i
        /\ \A j \in 1..Len(mixture.sample) :
              LET k == mixture.V[j]
              IN  /\ 6 * k <= Pf1 * Den
                        => mixture.sample[j] \in PieceInterval(1)
                  /\ (Pf1 * Den < 6 * k /\ 6 * k <= (Pf1 + Pf2) * Den)
                        => mixture.sample[j] \in PieceInterval(2)
                  /\ (Pf1 + Pf2) * Den < 6 * k
                        => mixture.sample[j] \in PieceInterval(3)

\* C25 witness: the histogram is reached with one value per uniform, values
\* of all three pieces among them.
C25_Witness ==
    /\ mixture.pc = "done" /\ Len(mixture.sample) = MixN
    /\ \A piece \in 1..3 :
          \E j \in 1..MixN :
             /\ Piece(mixture.V[j]) = piece
             /\ mixture.sample[j] \in PieceInterval(piece)

\* C10: for every uniform v the sampler appends the first point of the grid
\* of the selected piece whose cumulative CDF value exceeds v (stated for
\* v > 0, and for the v that have such a grid point).
C10_AppendsFirstGridPointAbove ==
    \A j \in 1..Len(mixture.sample) :
        LET k == mixture.V[j]
            above == GridAbove(k, Piece(k))
        IN  /\ Len(mixture.sample) = mixture.i
            /\ (k > 0 /\ above # {}) =>
                 \E g \in above :
                    /\ \A h \in above : g <= h
                    /\ mixture.sample[j] = GridPoint(Piece(k), g)

(***************************************************************************)
(* The programs below are the second half of the module; first holds the   *)
(* programs above, and those of the last part.                             *)
(***************************************************************************)
first == <<va, abs_norm, disc, conf, path, search, mixture, last>>

FirstIdle ==
    /\ va = Idle /\ abs_norm = Idle /\ disc = Idle /\ conf = Idle
    /\ path = Idle /\ search = Idle /\ mixture = Idle /\ LastIdle

\* ------------------------------------------------------------------------
\* sampleX and sampleY as maps from the draw u to the outcome
\* (monte-carlo.ipynb).  The breakpoints 1/3, 1/2, 1/60 and 1/60 + 4/5 are
\* multiples of 1 / LawDen, so each sampler is constant on every open cell
\* (c / LawDen, (c + 1) / LawDen); the draws are the numerators num of
\* u = num / (2 * LawDen): the even ones are the cell ends, the odd ones the
\* cell midpoints.
\* ------------------------------------------------------------------------
LawDen == 60

\* sampleX with  if u <= 1/3 / elif u <= 2/3 / else
SampleXAtShifted(num, den) ==
    IF 3 * num <= den THEN -1
    ELSE IF 3 * num <= 2 * den THEN 0
    ELSE 1

\* sampleX on u = num / den:  if u <= 1/3 / elif u <= 1/2 / else
SampleXAt(num, den) ==
    IF 3 * num <= den THEN -1
    ELSE IF 2 * num <= den THEN 0
    ELSE 1

\* sampleY on u = num / den:  if u <= 1/60 / elif u <= 1/60 + 4/5 / else
SampleYAt(num, den) ==
    IF 60 * num <= den THEN -1
    ELSE IF 60 * num <= 49 * den THEN 0
    ELSE 1

SamplerAt(fn, num, den) ==
    IF fn = "sampleX" THEN SampleXAt(num, den) ELSE SampleYAt(num, den)

notPartition ==
    <<first, va_boule, notebook, rho_loop, gaussian2, binomial, sous_groupes>>

\* A call of sampleX(1) / sampleY(1) whose draw is u = num / (2 * LawDen).
PartitionInit ==
    /\ partition \in [pc : {"call"}, fn : {"sampleX", "sampleY"},
                      num : 0..(2 * LawDen - 1), out : {0}]
    /\ FirstIdle
    /\ va_boule = Idle /\ notebook = Idle /\ rho_loop = Idle
    /\ gaussian2 = Idle /\ binomial = Idle /\ sous_groupes = Idle

\* the body of the for loop: A[i] = -1 / 0 / 1
PartitionApply ==
    /\ partition.pc = "call"
    /\ partition' = [partition EXCEPT
                       !.out = SamplerAt(partition.fn, partition.num, 2 * LawDen),
                       !.pc = "done"]
    /\ UNCHANGED notPartition

PartitionNext == PartitionApply

SpecPartition == PartitionInit /\ [][PartitionNext]_vars

\* The cells of [0,1) that the sampler maps to the value v; the measure of
\* the set of draws mapped to v is Cardinality(Cells(fn, v)) / LawDen.
Cells(fn, v) ==
    {c \in 0..(LawDen - 1) : SamplerAt(fn, 2 * c + 1, 2 * LawDen) = v}

\* S is a set of consecutive cells.
Consecutive(S) ==
    S # {} /\ \A x \in S : \A y \in S :
                 (\A z \in S : x <= z /\ z <= y) => Cardinality(S) = y - x + 1

\* LawDen times the expectation of the sampler: sum of v * measure(v)
RECURSIVE ExpectationNum(_, _, _)
ExpectationNum(fn, lw, j) ==
    IF j = 0 THEN 0
    ELSE lw[j][1] * Cardinality(Cells(fn, lw[j][1]))
         + ExpectationNum(fn, lw, j - 1)

\* C11: the draws that sampleX maps to -1, 0, 1 form intervals of lengths
\* 1/3, 1/6, 1/2, those that sampleY maps to -1, 0, 1 intervals of lengths
\* 1/60, 4/5, 11/60 (a draw at a cell end goes with one of the two cells it
\* ends), and both samplers have expectation 1/6.
C11_IntervalLengthsAndExpectation ==
    partition.pc = "done" =>
        LET fn == partition.fn
            lw == LawOf(fn, <<>>)
            c  == partition.num \div 2
        IN  /\ \A j \in 1..Len(lw) :
                 /\ Consecutive(Cells(fn, lw[j][1]))
                 /\ Cardinality(Cells(fn, lw[j][1])) * lw[j][3]
                       = lw[j][2] * LawDen
            /\ 6 * ExpectationNum(fn, lw, Len(lw)) = LawDen
            /\ IF partition.num % 2 = 1
               THEN c \in Cells(fn, partition.out)
               ELSE \/ c \in Cells(fn, partition.out)
                    \/ c > 0 /\ (c - 1) \in Cells(fn, partition.out)

\* C11 witness: a draw inside the last interval of sampleY, of length 11/60.
C11_Witness ==
    /\ partition.pc = "done" /\ partition.fn = "sampleY"
    /\ partition.out = 1 /\ partition.num = 2 * 49 + 1

\* ------------------------------------------------------------------------
\* va_boule (accept-reject-method.ipynb; the same text in unnamed/part_001)
\* ------------------------------------------------------------------------
\* np.random.random(3) returns numerators over BallDen = 2^BallBits.
BallBits == 1
BallDen == Pow(2, BallBits)
\* largest n of a call va_boule(n)
MaxBouleN == 2

\* x = -1 + 2 * np.random.random(3), as numerators over BallDen
BallCoord(k) == 2 * k - BallDen
BallCandidates ==
    {<<BallCoord(k1), BallCoord(k2), BallCoord(k3)>> :
        k1 \in 0..(BallDen - 1), k2 \in 0..(BallDen - 1),
        k3 \in 0..(BallDen - 1)}

\* np.linalg.norm(x) <= 1
InBall(x) == x[1] * x[1] + x[2] * x[2] + x[3] * x[3] <= BallDen * BallDen

notVaBoule ==
    <<first, partition, notebook, rho_loop, gaussian2, binomial, sous_groupes>>

\* L = []
VaBouleInit ==
    /\ va_boule \in [pc : {"while"}, n : 0..MaxBouleN, x : {<<>>}, L : {<<>>}]
    /\ FirstIdle
    /\ partition = Idle /\ notebook = Idle /\ rho_loop = Idle
    /\ gaussian2 = Idle /\ binomial = Idle /\ sous_groupes = Idle

\* while len(L) < n: x = -1 + 2 * np.random.random(3)
VaBouleDraw ==
    /\ va_boule.pc = "while" /\ Len(va_boule.L) < va_boule.n
    /\ \E x \in BallCandidates :
          va_boule' = [va_boule EXCEPT !.x = x, !.pc = "if"]
    /\ UNCHANGED notVaBoule

\* L.append(x) without the test of the norm
VaBouleAppendAny ==
    /\ va_boule.pc = "if"
    /\ va_boule' = [va_boule EXCEPT !.L = Append(@, va_boule.x),
                                    !.pc = "while"]
    /\ UNCHANGED notVaBoule

\* if np.linalg.norm(x) <= 1: L.append(x)
VaBouleAppend ==
    /\ va_boule.pc = "if" /\ InBall(va_boule.x)
    /\ va_boule' = [va_boule EXCEPT !.L = Append(@, va_boule.x),
                                    !.pc = "while"]
    /\ UNCHANGED notVaBoule

\* the test fails: back to the while test
VaBouleReject ==
    /\ va_boule.pc = "if" /\ ~InBall(va_boule.x)
    /\ va_boule' = [va_boule EXCEPT !.pc = "while"]
    /\ UNCHANGED notVaBoule

\* return L
VaBouleReturn ==
    /\ va_boule.pc = "while" /\ Len(va_boule.L) >= va_boule.n
    /\ va_boule' = [va_boule EXCEPT !.pc = "done"]
    /\ UNCHANGED notVaBoule

VaBouleNext ==
    VaBouleDraw \/ VaBouleAppend \/ VaBouleReject \/ VaBouleReturn

SpecVaBoule == VaBouleInit /\ [][VaBouleNext]_vars

\* A point of the list: three coordinates in [-1, 1), norm <= 1.
BallPoint(x) ==
    /\ Len(x) = 3
    /\ \A c \in 1..3 : -BallDen <= x[c] /\ x[c] < BallDen
    /\ x[1] * x[1] + x[2] * x[2] + x[3] * x[3] <= BallDen * BallDen

\* C12: va_boule(n) returns exactly n points, each a 3-vector with
\* coordinates in [-1, 1) and norm <= 1; a candidate of norm > 1 is never
\* appended, and the list only grows, by one point per accepted candidate.
C12_BallPointsOnly ==
    /\ [](va_boule.pc # "idle" =>
            /\ \A j \in 1..Len(va_boule.L) : BallPoint(va_boule.L[j])
            /\ va_boule.pc = "done" => Len(va_boule.L) = va_boule.n)
    /\ [][va_boule.pc # "idle" =>
            \/ va_boule'.L = va_boule.L
            \/ /\ va_boule.pc = "if" /\ BallPoint(va_boule.x)
               /\ va_boule'.L = Append(va_boule.L, va_boule.x)]_vars

\* C12 witness: a call va_boule(2) that has returned two different points.
C12_Witness ==
    /\ va_boule.pc = "done" /\ va_boule.n = 2 /\ Len(va_boule.L) = 2
    /\ va_boule.L[1] # va_boule.L[2]

\* ------------------------------------------------------------------------
\* abs_norm run to its end (accept-reject-method.ipynb): the retry loop
\* ------------------------------------------------------------------------

\* An iteration of the while loop that draws a pair (u, x) the test accepts.
AbsNormDrawAccepting ==
    AbsNormDraw /\ AbsNormTest(abs_norm'.u, abs_norm'.h)

\* The interpreter keeps running the call (weak fairness of its steps), and
\* an accepting pair is drawn again and again as long as the loop runs.
SpecAbsNormFair ==
    /\ AbsNormInit /\ [][AbsNormNext]_vars
    /\ WF_vars(AbsNormNext) /\ SF_vars(AbsNormDrawAccepting)

\* The pairs (u, x) the test rejects.
RejectedPairs == {c \in AbsNormPairs : ~AbsNormTest(c.u, c.h)}

\* C13: abs_norm(n) has no attempt cap: a rejected pair can be drawn, and a
\* rejection leads back to the very loop head the iteration started from,
\* with the list still short, so the loop can go round for ever; under
\* fairness
\* the call returns, and it returns exactly n values, the accepted candidates
\* in acceptance order.
C13_ReturnsOnlyUnderFairness ==
    /\ RejectedPairs # {}
    /\ [][AbsNormReject =>
            /\ abs_norm' = [pc |-> "while", n |-> abs_norm.n, u |-> 0,
                            g |-> 0, f |-> 0, h |-> 0, L |-> abs_norm.L]
            /\ Len(abs_norm'.L) < abs_norm'.n]_vars
    /\ [][abs_norm'.L # abs_norm.L =>
            /\ AbsNormTest(abs_norm.u, abs_norm.h)
            /\ abs_norm'.L = Append(abs_norm.L, abs_norm.g)]_vars
    /\ <>(abs_norm.pc = "done")
    /\ [](abs_norm.pc = "done" => Len(abs_norm.L) = abs_norm.n)

\* C13 witness: abs_norm(2) has returned two different accepted values.
C13_Witness ==
    /\ abs_norm.pc = "done" /\ abs_norm.n = 2 /\ Len(abs_norm.L) = 2
    /\ abs_norm.L[1] # abs_norm.L[2]

(***************************************************************************)
(* The Monte-Carlo notebook run top to bottom: the code cells that assign  *)
(* the globals compute_error, n and N, in the order of the file, and then  *)
(* the cell of the naive Monte-Carlo estimate of E[g(X)],                  *)
(*     X = np.random.normal(size=n)                                        *)
(*     gX = np.array([g(x) for x in X])                                    *)
(*     print(f"The expectation of g(X) is {np.mean(gX)}.")                 *)
(* n and N hold 0, and compute_error FALSE, until a cell assigns them.     *)
(* The sample X is kept as the                                             *)
(* number of draws that took each value of NormalFix: np.mean(gX) does not *)
(* depend on their order.                                                  *)
(***************************************************************************)

notNotebook == <<first, partition, va_boule, rho_loop, gaussian2, binomial,
                 sous_groupes>>

NotebookInit ==
    /\ notebook = [pc |-> "settings", compute_error |-> FALSE, n |-> 0,
                   N |-> 0, size |-> 0, X |-> [x \in NormalFix |-> 0],
                   estimate |-> 0]
    /\ FirstIdle
    /\ partition = Idle /\ va_boule = Idle /\ rho_loop = Idle
    /\ gaussian2 = Idle /\ binomial = Idle /\ sous_groupes = Idle

\* compute_error = False
CellSettings ==
    /\ notebook.pc = "settings"
    /\ notebook' = [notebook EXCEPT !.compute_error = FALSE, !.pc = "laws"]
    /\ UNCHANGED notNotebook

\* N = 1000 (law of large numbers)
CellLaws ==
    /\ notebook.pc = "laws"
    /\ notebook' = [notebook EXCEPT !.N = 1000, !.pc = "error1"]
    /\ UNCHANGED notNotebook

\* if compute_error: n = 100 ... n += 1     (first estimation-error cell)
\* if compute_error: n = 5 * 10**5 ... n += 1000           (second cell)
\* With compute_error set, n is left at the second lower bound plus a number
\* of steps.
CellError ==
    /\ notebook.pc \in {"error1", "error2"}
    /\ \E steps \in 0..1 :
          notebook' =
              [notebook EXCEPT
                 !.n = IF ~notebook.compute_error THEN @
                       ELSE IF notebook.pc = "error1" THEN 100 + steps
                       ELSE 500000 + 1000 * steps,
                 !.pc = IF notebook.pc = "error1" THEN "error2" ELSE "params"]
    /\ UNCHANGED notNotebook

\* n = 30
CellParams ==
    /\ notebook.pc = "params"
    /\ notebook' = [notebook EXCEPT !.n = 30, !.pc = "model1"]
    /\ UNCHANGED notNotebook

\* N = 10 ** 4  # Number of simulations       (first and recursive model)
CellModel ==
    /\ notebook.pc \in {"model1", "model2"}
    /\ notebook' = [notebook EXCEPT
                      !.N = 10000,
                      !.pc = IF notebook.pc = "model1" THEN "model2" ELSE "naive"]
    /\ UNCHANGED notNotebook

\* The samples of the given size, as counts per value.
NormalCounts(size) ==
    {X \in [NormalFix -> 0..size] :
        X[-Scale] + X[Scale \div 2] + X[2 * Scale] = size}

\* np.mean(gX) for the sample X of the given size
MeanG(X, size) ==
    (X[-Scale] * G(-Scale) + X[Scale \div 2] * G(Scale \div 2)
       + X[2 * Scale] * G(2 * Scale)) \div size

\* X = np.random.normal(size=n); gX = ...; print(... np.mean(gX) ...)
CellNaive ==
    /\ notebook.pc = "naive"
    /\ \E X \in NormalCounts(notebook.n) :
          notebook' = [notebook EXCEPT
                         !.size = notebook.n, !.X = X,
                         !.estimate = MeanG(X, notebook.n),
                         !.pc = "done"]
    /\ UNCHANGED notNotebook

NotebookNext ==
    CellSettings \/ CellLaws \/ CellError \/ CellParams \/ CellModel
        \/ CellNaive

SpecNotebook == NotebookInit /\ [][NotebookNext]_vars

\* C15: when the notebook is run top to bottom, the naive Monte-Carlo cell
\* draws a sample of 10000 standard-normal values: the size it passes to
\* np.random.normal is 10000.
C15_NaiveSampleOfTenThousand ==
    notebook.pc = "done" => notebook.size = 10000

(***************************************************************************)
(* gaussian2(n), the Box-Muller method (accept-reject notebook, repeated   *)
(* in unnamed/part_001):                                                   *)
(*     r = np.array(exponentielle(0.5, n))                                 *)
(*     u = 2 * np.pi * np.random.random(n)                                 *)
(*     return np.sqrt(r) * np.cos(u), np.sqrt(r) * np.sin(u)               *)
(* Radii, angles and the two outputs are in fixed point.                   *)
(***************************************************************************)

\* Resolution of the uniform draws behind the radii and behind the angles.
RadiusBits == 1
AngleBits == 3
RadiusDen == Pow(2, RadiusBits)
AngleDen == Pow(2, AngleBits)
\* Largest n passed to gaussian2.
MaxGaussN == 2

\* x * y in fixed point, rounded towards zero
MulFix(x, y) ==
    IF (x < 0) = (y < 0) THEN (Abs(x) * Abs(y)) \div Scale
    ELSE 0 - ((Abs(x) * Abs(y)) \div Scale)

\* np.pi
PiFix == (PiNum * Scale) \div PiDen

\* One element of exponentielle(0.5, n): -np.log(1 - u) / lam with lam = 0.5,
\* u = k / RadiusDen.
ExponentielleHalf(k) == 2 * LogFix(RadiusDen, RadiusDen - k)

\* One element of 2 * np.pi * np.random.random(n), the draw being k / AngleDen
Angle(k) == (2 * PiFix * k) \div AngleDen

\* cos and sin on [0, pi / 2], by their power series
CosSeries(x) ==
    LET x2 == MulFix(x, x)
        t2 == x2 \div 2
        t4 == MulFix(t2, x2) \div 12
        t6 == MulFix(t4, x2) \div 30
        t8 == MulFix(t6, x2) \div 56
    IN  Scale - t2 + t4 - t6 + t8
SinSeries(x) ==
    LET x2 == MulFix(x, x)
        t3 == MulFix(x, x2) \div 6
        t5 == MulFix(t3, x2) \div 20
        t7 == MulFix(t5, x2) \div 42
        t9 == MulFix(t7, x2) \div 72
    IN  x - t3 + t5 - t7 + t9

\* np.cos and np.sin of an angle of [0, 2 * pi): the quadrant, then the
\* series on the rest.
Quadrant(x) == IF 2 * x >= 3 * PiFix THEN 3 ELSE (2 * x) \div PiFix
InQuadrant(x) == x - (Quadrant(x) * PiFix) \div 2
CosFix(x) ==
    CASE Quadrant(x) = 0 -> CosSeries(InQuadrant(x))
      [] Quadrant(x) = 1 -> 0 - SinSeries(InQuadrant(x))
      [] Quadrant(x) = 2 -> 0 - CosSeries(InQuadrant(x))
      [] OTHER           -> SinSeries(InQuadrant(x))
SinFix(x) ==
    CASE Quadrant(x) = 0 -> SinSeries(InQuadrant(x))
      [] Quadrant(x) = 1 -> CosSeries(InQuadrant(x))
      [] Quadrant(x) = 2 -> 0 - SinSeries(InQuadrant(x))
      [] OTHER           -> 0 - CosSeries(InQuadrant(x))

\* The values an element of exponentielle(0.5, n) and an element of
\* 2 * np.pi * np.random.random(n) can take
RadiusValues == {ExponentielleHalf(k) : k \in 0..(RadiusDen - 1)}
AngleValues == {Angle(k) : k \in 0..(AngleDen - 1)}

\* np.sqrt, np.cos and np.sin on these values
SqrtOfRadius == [r \in RadiusValues |-> SqrtFix(r)]
CosOfAngle == [x \in AngleValues |-> CosFix(x)]
SinOfAngle == [x \in AngleValues |-> SinFix(x)]

\* The two arrays with the second one reading the angles in reverse order.
Gaussian2Reversed(r, u) ==
    [Z1 |-> [k \in 1..Len(r) |-> MulFix(SqrtOfRadius[r[k]], CosOfAngle[u[k]])],
     Z2 |-> [k \in 1..Len(r) |->
                MulFix(SqrtOfRadius[r[k]], SinOfAngle[u[Len(r) + 1 - k]])]]

\* np.sqrt(r) * np.cos(u), np.sqrt(r) * np.sin(u), element by element
Gaussian2(r, u) ==
    [Z1 |-> [k \in 1..Len(r) |-> MulFix(SqrtOfRadius[r[k]], CosOfAngle[u[k]])],
     Z2 |-> [k \in 1..Len(r) |-> MulFix(SqrtOfRadius[r[k]], SinOfAngle[u[k]])]]

\* The arrays exponentielle(0.5, n) and 2 * np.pi * np.random.random(n) can be
Radii(n) == [1..n -> RadiusValues]
Angles(n) == [1..n -> AngleValues]

notGaussian2 == <<first, partition, va_boule, notebook, rho_loop, binomial,
                  sous_groupes>>

Gaussian2Init ==
    /\ gaussian2 \in [pc : {"call"}, n : 0..MaxGaussN, r : {<<>>}, u : {<<>>},
                      Z1 : {<<>>}, Z2 : {<<>>}]
    /\ FirstIdle
    /\ partition = Idle /\ va_boule = Idle /\ notebook = Idle
    /\ rho_loop = Idle /\ binomial = Idle /\ sous_groupes = Idle

\* X, Y = gaussian2(n)
Gaussian2Call ==
    /\ gaussian2.pc = "call"
    /\ \E r \in Radii(gaussian2.n), u \in Angles(gaussian2.n) :
          gaussian2' = [gaussian2 EXCEPT
                          !.r = r, !.u = u,
                          !.Z1 = Gaussian2(r, u).Z1,
                          !.Z2 = Gaussian2(r, u).Z2,
                          !.pc = "done"]
    /\ UNCHANGED notGaussian2

Gaussian2Next == Gaussian2Call

SpecGaussian2 == Gaussian2Init /\ [][Gaussian2Next]_vars

\* Z1_k ^ 2 + Z2_k ^ 2 is r_k up to the rounding of the fixed point (one
\* percent of 1 + r_k).
SquaresGiveRadius(z1, z2, r) ==
    Abs(z1 * z1 + z2 * z2 - r * Scale) * 100 <= (Scale + r) * Scale

\* C18: gaussian2(n) returns two sequences of exactly n values, and for every
\* index k the pair (Z1_k, Z2_k) is (sqrt(r_k) * cos(theta_k),
\* sqrt(r_k) * sin(theta_k)) for the same k-th radius r_k >= 0 and the same
\* k-th angle theta_k of [0, 2 * pi), so that Z1_k ^ 2 + Z2_k ^ 2 = r_k.
C18_SameRadiusAndAngle ==
    gaussian2.pc = "done" =>
        /\ Len(gaussian2.Z1) = gaussian2.n
        /\ Len(gaussian2.Z2) = gaussian2.n
        /\ \A k \in 1..gaussian2.n :
              /\ gaussian2.r[k] >= 0
              /\ gaussian2.u[k] >= 0 /\ gaussian2.u[k] < 2 * PiFix
              /\ gaussian2.Z1[k]
                    = MulFix(SqrtOfRadius[gaussian2.r[k]],
                             CosOfAngle[gaussian2.u[k]])
              /\ gaussian2.Z2[k]
                    = MulFix(SqrtOfRadius[gaussian2.r[k]],
                             SinOfAngle[gaussian2.u[k]])
              /\ SquaresGiveRadius(gaussian2.Z1[k], gaussian2.Z2[k],
                                   gaussian2.r[k])

\* C18 witness: a call with two points whose radii are positive and whose
\* angles have different sines.
C18_Witness ==
    /\ gaussian2.pc = "done" /\ gaussian2.n = 2
    /\ gaussian2.r[1] > 0 /\ gaussian2.r[2] > 0
    /\ SinOfAngle[gaussian2.u[1]] # SinOfAngle[gaussian2.u[2]]
    /\ gaussian2.Z1[1] # 0 /\ gaussian2.Z2[1] # 0

(***************************************************************************)
(* The bivariate-Gaussian loop (unnamed/part_001):                         *)
(*     sigma11 = 1; sigma22 = 2                                            *)
(*     sigma_list = [(0.01,0.1), (0.1,0.42), (0.5,0.55)]                   *)
(*     for s in sigma_list:                                                *)
(*         sigma12, sigma21 = s                                            *)
(*         sigma1 = np.linalg.norm([sigma11, sigma12])                     *)
(*         sigma2 = np.linalg.norm([sigma21, sigma22])                     *)
(*         rho = (sigma12 * sigma22 + sigma21 * sigma22) / (sigma1 * sigma2)*)
(*         X1,X2 = gaussian2(10000)                                        *)
(*         Z1 = sigma11 * X1 + sigma12 * X2                                *)
(*         Z2 = sigma21 * X1 + sigma22 * X2                                *)
(* in fixed point; the sample size 10000 is scaled down to MaxGaussN.      *)
(***************************************************************************)

sigma11 == Scale
sigma22 == 2 * Scale
sigma_list ==
    << <<Scale \div 100, Scale \div 10>>,
       <<Scale \div 10, (42 * Scale) \div 100>>,
       <<Scale \div 2, (55 * Scale) \div 100>> >>

\* np.linalg.norm([x, y])
Norm2(x, y) == SqrtFix(MulFix(x, x) + MulFix(y, y))

\* rho = (sigma12 * sigma22 + sigma21 * sigma22) / (sigma1 * sigma2)
Rho(sigma12, sigma21, sigma1, sigma2) ==
    ((MulFix(sigma12, sigma22) + MulFix(sigma21, sigma22)) * Scale)
        \div MulFix(sigma1, sigma2)

\* The documented closed form,
\* rho = (sigma11 * sigma21 + sigma12 * sigma22) / (sigma1 * sigma2)
DocumentedRho(sigma12, sigma21, sigma1, sigma2) ==
    ((MulFix(sigma11, sigma21) + MulFix(sigma12, sigma22)) * Scale)
        \div MulFix(sigma1, sigma2)

\* c1 * X1 + c2 * X2, element by element
Combine(c1, X1, c2, X2) ==
    [k \in 1..Len(X1) |-> MulFix(c1, X1[k]) + MulFix(c2, X2[k])]

notRhoLoop == <<first, partition, va_boule, notebook, gaussian2, binomial,
                sous_groupes>>

\* Before the first iteration; s is the position in sigma_list.
RhoLoopInit ==
    /\ rho_loop = [pc |-> "for", s |-> 0, sigma12 |-> 0, sigma21 |-> 0,
                   sigma1 |-> 0, sigma2 |-> 0, rho |-> 0,
                   Z1 |-> <<>>, Z2 |-> <<>>]
    /\ FirstIdle
    /\ partition = Idle /\ va_boule = Idle /\ notebook = Idle
    /\ gaussian2 = Idle /\ binomial = Idle /\ sous_groupes = Idle

\* One iteration of  for s in sigma_list
RhoLoopBody ==
    /\ rho_loop.pc = "for" /\ rho_loop.s < Len(sigma_list)
    /\ \E r \in Radii(MaxGaussN), u \in Angles(MaxGaussN) :
          LET sigma12 == sigma_list[rho_loop.s + 1][1]
              sigma21 == sigma_list[rho_loop.s + 1][2]
              sigma1 == Norm2(sigma11, sigma12)
              sigma2 == Norm2(sigma21, sigma22)
              X == Gaussian2(r, u)
          IN  rho_loop' =
                  [pc |-> "for", s |-> rho_loop.s + 1,
                   sigma12 |-> sigma12, sigma21 |-> sigma21,
                   sigma1 |-> sigma1, sigma2 |-> sigma2,
                   rho |-> Rho(sigma12, sigma21, sigma1, sigma2),
                   Z1 |-> Combine(sigma11, X.Z1, sigma12, X.Z2),
                   Z2 |-> Combine(sigma21, X.Z1, sigma22, X.Z2)]
    /\ UNCHANGED notRhoLoop

\* sigma_list is exhausted
RhoLoopEnd ==
    /\ rho_loop.pc = "for" /\ rho_loop.s = Len(sigma_list)
    /\ rho_loop' = [rho_loop EXCEPT !.pc = "done"]
    /\ UNCHANGED notRhoLoop

RhoLoopNext == RhoLoopBody \/ RhoLoopEnd

SpecRhoLoop == RhoLoopInit /\ [][RhoLoopNext]_vars

\* C17: for each pair (sigma12, sigma21) of sigma_list the rho the loop
\* computes equals the documented closed form
\* (sigma11 * sigma21 + sigma12 * sigma22) / (sigma1 * sigma2) with
\* sigma1 = norm(sigma11, sigma12) and sigma2 = norm(sigma21, sigma22).
C17_RhoIsDocumentedClosedForm ==
    (rho_loop.pc # "idle" /\ rho_loop.s > 0) =>
        /\ rho_loop.sigma1 = Norm2(sigma11, rho_loop.sigma12)
        /\ rho_loop.sigma2 = Norm2(rho_loop.sigma21, sigma22)
        /\ rho_loop.rho = DocumentedRho(rho_loop.sigma12, rho_loop.sigma21,
                                        rho_loop.sigma1, rho_loop.sigma2)

(***************************************************************************)
(* binomial(n, N, p) (unnamed/part_001):                                   *)
(*     return np.array(sum([bernoulli(n,p) for _ in range(N)]))            *)
(* A value is a record: ndim 0 for a Python number or a 0-d array, ndim 1  *)
(* for an array, whose val is then the sequence of its entries.            *)
(***************************************************************************)

\* Largest sample size n and largest number of trials N.
MaxBinomialN == 2
MaxTrials == 2
\* The values of p.
BinomialP == {<<1, 10>>, <<3, 10>>, <<1, 2>>}

Number(v) == [ndim |-> 0, val |-> v]
Array(v) == [ndim |-> 1, val |-> v]

\* x + y for an array y: a number is added to every entry, an array entry
\* by entry
NpAdd(x, y) ==
    IF x.ndim = 0
    THEN Array([j \in 1..Len(y.val) |-> x.val + y.val[j]])
    ELSE Array([j \in 1..Len(y.val) |-> x.val[j] + y.val[j]])

\* The builtin sum(list): it starts from the number 0 and adds the items
\* from left to right.
RECURSIVE PySum(_, _)
PySum(list, upto) ==
    IF upto = 0 THEN Number(0)
    ELSE NpAdd(PySum(list, upto - 1), Array(list[upto]))

\* bernoulli(n, p) for the draws ks
BernoulliArray(ks, p) == [j \in 1..Len(ks) |-> BernoulliOutcome(ks[j], p)]

notBinomial == <<first, partition, va_boule, notebook, rho_loop, gaussian2,
                 sous_groupes>>

BinomialInit ==
    /\ binomial \in [pc : {"call"}, n : 0..MaxBinomialN, N : 0..MaxTrials,
                     p : BinomialP, samples : {<<>>}, out : {Number(0)}]
    /\ FirstIdle
    /\ partition = Idle /\ va_boule = Idle /\ notebook = Idle
    /\ rho_loop = Idle /\ gaussian2 = Idle /\ sous_groupes = Idle

\* binomial(n, N, p); samples is the list [bernoulli(n,p) for _ in range(N)].
\* np.array() of a number is a 0-d array, of an array the array.
BinomialCall ==
    /\ binomial.pc = "call"
    /\ \E ks \in [1..binomial.N -> [1..binomial.n -> Rand]] :
          LET samples == [t \in 1..binomial.N |->
                             BernoulliArray(ks[t], binomial.p)]
          IN  binomial' = [binomial EXCEPT
                             !.samples = samples,
                             !.out = PySum(samples, binomial.N),
                             !.pc = "done"]
    /\ UNCHANGED notBinomial

BinomialNext == BinomialCall

SpecBinomial == BinomialInit /\ [][BinomialNext]_vars

\* The number of the samples that have a success at position j
Successes(samples, j) == Cardinality({t \in 1..Len(samples) : samples[t][j] = 1})

\* C19: binomial(n, N, p) returns an array of exactly n entries, each an
\* integer of 0..N equal to the number of successes, at that position, among
\* the N Bernoulli(p) samples of size n.
C19_CountsPerPosition ==
    binomial.pc = "done" =>
        /\ binomial.out.ndim = 1
        /\ Len(binomial.out.val) = binomial.n
        /\ \A j \in 1..binomial.n :
              /\ binomial.out.val[j] \in 0..binomial.N
              /\ binomial.out.val[j] = Successes(binomial.samples, j)

(***************************************************************************)
(* sous_groupes(n, p) (unnamed/part_001): p groups drawn without           *)
(* replacement from the pool U = [0, ..., n-1].  The two branches of       *)
(* if n % p == 0  differ by the while test and by the final                *)
(* L[-1].extend(U).  Reading U[x] or popping with U empty raises           *)
(* IndexError: pc "error".                                                 *)
(***************************************************************************)

\* Largest number of people n and of groups p.
MaxPeople == 4
MaxGroupsP == 3

\* while len(tmp) < n/p  in both branches.
GroupIncompleteSameTest(n, p, len) == len * p < n

\* while len(tmp) < n/p          (n % p == 0)
\* while len(tmp) < n/p - 1      (otherwise)
GroupIncomplete(n, p, len) ==
    IF n % p = 0 THEN len * p < n ELSE (len + 1) * p < n

\* U.pop(x), x counted from 0
Pop(U, x) == SubSeq(U, 1, x) \o SubSeq(U, x + 2, Len(U))

\* L[-1].extend(U)
ExtendLast(L, U) == [L EXCEPT ![Len(L)] = @ \o U]

notSousGroupes == <<first, partition, va_boule, notebook, rho_loop, gaussian2,
                    binomial>>

\* After  L=[]; U=[_ for _ in range(n)]  of either branch.
SousGroupesInit ==
    /\ sous_groupes \in
          {[pc |-> "for", n |-> n, p |-> p, L |-> <<>>,
            U |-> [j \in 1..n |-> j - 1], i |-> 0, tmp |-> <<>>] :
               n \in 0..MaxPeople, p \in 1..MaxGroupsP}
    /\ FirstIdle
    /\ partition = Idle /\ va_boule = Idle /\ notebook = Idle
    /\ rho_loop = Idle /\ gaussian2 = Idle /\ binomial = Idle

\* for i in range(p): tmp=[]
SousGroupesFor ==
    /\ sous_groupes.pc = "for" /\ sous_groupes.i < sous_groupes.p
    /\ sous_groupes' = [sous_groupes EXCEPT !.tmp = <<>>, !.pc = "while"]
    /\ UNCHANGED notSousGroupes

\* x = int(np.random.random()*len(U)); tmp.append(U[x]); U.pop(x)
SousGroupesDraw ==
    /\ sous_groupes.pc = "while"
    /\ GroupIncomplete(sous_groupes.n, sous_groupes.p, Len(sous_groupes.tmp))
    /\ \E k \in Rand :
          LET x == (k * Len(sous_groupes.U)) \div Den
          IN  sous_groupes' =
                  IF sous_groupes.U = <<>>
                  THEN [sous_groupes EXCEPT !.pc = "error"]
                  ELSE [sous_groupes EXCEPT
                          !.tmp = Append(@, sous_groupes.U[x + 1]),
                          !.U = Pop(@, x)]
    /\ UNCHANGED notSousGroupes

\* the while test fails: L.append(tmp), next i
SousGroupesAppend ==
    /\ sous_groupes.pc = "while"
    /\ ~GroupIncomplete(sous_groupes.n, sous_groupes.p, Len(sous_groupes.tmp))
    /\ sous_groupes' = [sous_groupes EXCEPT
                          !.L = Append(@, sous_groupes.tmp),
                          !.i = @ + 1, !.pc = "for"]
    /\ UNCHANGED notSousGroupes

\* after the for loop: return L, after L[-1].extend(U) when n % p != 0
SousGroupesReturn ==
    /\ sous_groupes.pc = "for" /\ sous_groupes.i = sous_groupes.p
    /\ sous_groupes' = [sous_groupes EXCEPT
                          !.L = IF sous_groupes.n % sous_groupes.p = 0 THEN @
                                ELSE ExtendLast(@, sous_groupes.U),
                          !.pc = "done"]
    /\ UNCHANGED notSousGroupes

SousGroupesNext ==
    \/ SousGroupesFor \/ SousGroupesDraw \/ SousGroupesAppend
    \/ SousGroupesReturn

SpecSousGroupes == SousGroupesInit /\ [][SousGroupesNext]_vars

\* The places (group, position) of L that hold the given person
Places(L, person) ==
    {gj \in {<<g, j>> : g \in 1..Len(L), j \in 1..MaxPeople + 1} :
        gj[2] <= Len(L[gj[1]]) /\ L[gj[1]][gj[2]] = person}

\* C20: for n >= 0 and p >= 1, sous_groupes(n, p) returns exactly p groups
\* in which every person of 0..n-1 occurs exactly once and nobody else
\* occurs, and it never draws from, nor pops from, an empty pool U.
C20_PartitionIntoPGroups ==
    /\ sous_groupes.pc # "error"
    /\ (sous_groupes.pc = "while"
          /\ GroupIncomplete(sous_groupes.n, sous_groupes.p,
                             Len(sous_groupes.tmp)))
         => sous_groupes.U # <<>>
    /\ sous_groupes.pc = "done" =>
          /\ Len(sous_groupes.L) = sous_groupes.p
          /\ \A g \in 1..sous_groupes.p : \A j \in 1..Len(sous_groupes.L[g]) :
                sous_groupes.L[g][j] \in 0..(sous_groupes.n - 1)
          /\ \A person \in 0..(sous_groupes.n - 1) :
                Cardinality(Places(sous_groupes.L, person)) = 1

\* C20 witness: a returned split with n not a multiple of p, in which the
\* first group is not empty and the last one received the rest of the pool.
C20_Witness ==
    /\ sous_groupes.pc = "done"
    /\ sous_groupes.n % sous_groupes.p # 0
    /\ Len(sous_groupes.L[1]) >= 1
    /\ Len(sous_groupes.L[sous_groupes.p]) > Len(sous_groupes.L[1])

(***************************************************************************)
(* poisson(lam, n) (unnamed/part_001):                                     *)
(*     L=[]                                                                *)
(*     for i in range(n):                                                  *)
(*         X = 0; c=np.exp(-lam); u = np.random.random(); fct = [1]        *)
(*         while u >= c:                                                   *)
(*             X += 1; fct.append(fct[-1] * X)                             *)
(*             c += np.exp(-lam) * (lam ** X) / fct[-1]                    *)
(*         L.append(X)                                                     *)
(*     return L                                                            *)
(* c is in fixed point; us is the list of the uniforms drawn so far.       *)
(***************************************************************************)

\* Largest n passed to poisson.
MaxPoissonN == 2
\* The values of lam.
PoissonLam == {1, 2}

\* np.exp(-lam) * (lam ** X) / fct[-1]
PoissonTerm(lam, X, fact) == (ExpFix(0 - lam * Scale) * Pow(lam, X)) \div fact

notPoisson == <<va, abs_norm, disc, conf, path, search, mixture, partition,
                va_boule, notebook, rho_loop, gaussian2, binomial,
                sous_groupes, exit_time>>

\* After L=[]
PoissonInit ==
    /\ poisson \in [pc : {"for"}, lam : PoissonLam, n : 0..MaxPoissonN,
                    i : {0}, X : {0}, c : {0}, u : {0}, fct : {<<1>>},
                    us : {<<>>}, L : {<<>>}]
    /\ va = Idle /\ abs_norm = Idle /\ disc = Idle /\ conf = Idle
    /\ path = Idle /\ search = Idle /\ mixture = Idle
    /\ partition = Idle /\ va_boule = Idle /\ notebook = Idle
    /\ rho_loop = Idle /\ gaussian2 = Idle /\ binomial = Idle
    /\ sous_groupes = Idle /\ exit_time = Idle

\* The head of an iteration that keeps X, c and fct of the previous draw.
PoissonForNoReset ==
    /\ poisson.pc = "for" /\ poisson.i < poisson.n
    /\ \E k \in Rand :
          poisson' = [poisson EXCEPT
                        !.c = IF poisson.i = 0
                              THEN ExpFix(0 - poisson.lam * Scale) ELSE @,
                        !.u = k, !.us = Append(@, k), !.pc = "while"]
    /\ UNCHANGED notPoisson

\* for i in range(n): X = 0; c=np.exp(-lam); u = np.random.random(); fct = [1]
PoissonFor ==
    /\ poisson.pc = "for" /\ poisson.i < poisson.n
    /\ \E k \in Rand :
          poisson' = [poisson EXCEPT
                        !.X = 0, !.c = ExpFix(0 - poisson.lam * Scale),
                        !.u = k, !.us = Append(@, k), !.fct = <<1>>,
                        !.pc = "while"]
    /\ UNCHANGED notPoisson

\* while u >= c: the loop body
PoissonWhile ==
    /\ poisson.pc = "while" /\ poisson.u * Scale >= poisson.c * Den
    /\ LET X == poisson.X + 1
           fact == poisson.fct[Len(poisson.fct)] * X
       IN  poisson' = [poisson EXCEPT
                         !.X = X, !.fct = Append(@, fact),
                         !.c = @ + PoissonTerm(poisson.lam, X, fact)]
    /\ UNCHANGED notPoisson

\* u < c: L.append(X), next i
PoissonAppend ==
    /\ poisson.pc = "while" /\ poisson.u * Scale < poisson.c * Den
    /\ poisson' = [poisson EXCEPT !.L = Append(@, poisson.X), !.i = @ + 1,
                                  !.pc = "for"]
    /\ UNCHANGED notPoisson

\* return L
PoissonReturn ==
    /\ poisson.pc = "for" /\ poisson.i = poisson.n
    /\ poisson' = [poisson EXCEPT !.pc = "done"]
    /\ UNCHANGED notPoisson

PoissonNext ==
    PoissonFor \/ PoissonWhile \/ PoissonAppend \/ PoissonReturn

SpecPoisson == PoissonInit /\ [][PoissonNext]_vars

RECURSIVE Factorial(_)
Factorial(x) == IF x = 0 THEN 1 ELSE x * Factorial(x - 1)

\* sum_{j=0..x} exp(-lam) * lam^j / j!
RECURSIVE PoissonCdf(_, _)
PoissonCdf(lam, x) ==
    PoissonTerm(lam, x, Factorial(x))
        + (IF x = 0 THEN 0 ELSE PoissonCdf(lam, x - 1))

\* C26: each value produced by poisson(lam, n) is the smallest integer
\* X >= 0 with u < sum_{j=0..X} exp(-lam) * lam^j / j!; at every loop test
\* fct[-1] equals X! and c equals that partial sum, X, fct and c having been
\* reset for the draw.
C26_SmallestXAboveU ==
    /\ poisson.pc = "while" =>
          /\ Len(poisson.fct) = poisson.X + 1
          /\ poisson.fct[Len(poisson.fct)] = Factorial(poisson.X)
          /\ poisson.c = PoissonCdf(poisson.lam, poisson.X)
    /\ poisson.pc # "idle" =>
          /\ Len(poisson.L) = poisson.i
          /\ \A j \in 1..Len(poisson.L) :
                /\ poisson.us[j] * Scale
                       < PoissonCdf(poisson.lam, poisson.L[j]) * Den
                /\ \A x \in 0..(poisson.L[j] - 1) :
                       poisson.us[j] * Scale
                           >= PoissonCdf(poisson.lam, x) * Den

\* C26 witness: a call returns two different values, one of them after at
\* least two rounds of the while loop.
C26_Witness ==
    /\ poisson.pc = "done" /\ poisson.n = 2
    /\ poisson.L[1] >= 2 /\ poisson.L[2] < poisson.L[1]

(***************************************************************************)
(* The exit-time loop and hsample of the two simulation cells              *)
(* (Monte-Carlo notebook), as a function of the path:                      *)
(*     tau = n + 1                                                         *)
(*     for i in range(n):                                                  *)
(*         if sample[i] < a or sample[i] > b: tau = i; break               *)
(*     hsample = np.array([(np.abs(x - a) if np.abs(x - a) < np.abs(x-b)   *)
(*                        else np.abs(x-b)) if tau > n else 0              *)
(*                        for x in sample])                                *)
(* applied to paths whose elements are taken around a and b.               *)
(***************************************************************************)

\* The values of a path element: just below a, a, two values inside, b,
\* just above b.
PathValues ==
    {a * Scale - 1, a * Scale, x0 * Scale, 25 * Scale, b * Scale,
     b * Scale + 1}

notExitTime == <<va, abs_norm, disc, conf, path, search, mixture, partition,
                 va_boule, notebook, rho_loop, gaussian2, binomial,
                 sous_groupes, poisson>>

\* After  sample = generateSample()
ExitTimeInit ==
    /\ exit_time \in [pc : {"loop"}, sample : [1..PathN -> PathValues],
                      tau : {0}, hsample : {<<>>}]
    /\ va = Idle /\ abs_norm = Idle /\ disc = Idle /\ conf = Idle
    /\ path = Idle /\ search = Idle /\ mixture = Idle
    /\ partition = Idle /\ va_boule = Idle /\ notebook = Idle
    /\ rho_loop = Idle /\ gaussian2 = Idle /\ binomial = Idle
    /\ sous_groupes = Idle /\ poisson = Idle

\* tau = n + 1; the exit-time loop; hsample = ...
ExitTimeApply ==
    /\ exit_time.pc = "loop"
    /\ LET tau == ExitLoop(exit_time.sample, 0).tau
       IN  exit_time' = [exit_time EXCEPT
                           !.tau = tau,
                           !.hsample = HSample(exit_time.sample, tau),
                           !.pc = "done"]
    /\ UNCHANGED notExitTime

ExitTimeNext == ExitTimeApply

SpecExitTime == ExitTimeInit /\ [][ExitTimeNext]_vars

\* The indices, counted from 0, of the elements outside [a, b]
Outside(sample) ==
    {i \in 0..(PathN - 1) :
        sample[i + 1] < a * Scale \/ sample[i + 1] > b * Scale}

\* min(|x - a|, |x - b|)
MinDistance(x) ==
    IF Abs(x - a * Scale) <= Abs(x - b * Scale)
    THEN Abs(x - a * Scale) ELSE Abs(x - b * Scale)

\* C24: after the exit-time loop tau is the smallest index i of 0..n-1 with
\* sample[i] < a or sample[i] > b, and tau = n + 1 iff every element lies in
\* [a, b]; hsample is all zeros when tau <= n and min(|x-a|, |x-b|) element
\* by element when tau = n + 1.
C24_TauIsFirstExit ==
    exit_time.pc = "done" =>
        LET out == Outside(exit_time.sample)
        IN  /\ out # {} =>
                 /\ exit_time.tau \in out
                 /\ \A i \in out : exit_time.tau <= i
            /\ exit_time.tau = PathN + 1 <=> out = {}
            /\ Len(exit_time.hsample) = PathN
            /\ exit_time.tau <= PathN =>
                 \A k \in 1..PathN : exit_time.hsample[k] = 0
            /\ exit_time.tau = PathN + 1 =>
                 \A k \in 1..PathN :
                    exit_time.hsample[k] = MinDistance(exit_time.sample[k])

\* C24 witness: a path that stays in [a, b], touches a and b, and has a
\* strictly positive payoff.
C24_Witness ==
    /\ exit_time.pc = "done" /\ exit_time.tau = PathN + 1
    /\ \E k1, k2, k3 \in 1..PathN :
          /\ exit_time.sample[k1] = a * Scale
          /\ exit_time.sample[k2] = b * Scale
          /\ exit_time.hsample[k3] > 0

====
